---- MODULE Spec2Model ----
(***************************************************************************)
(* Model of src/ETLSQL.py: the two loaders carga_manual (interactive) and  *)
(* carga_por_archivo (batch), the validation of the database and table     *)
(* names that precedes them, the SQL Server connection they drive and the  *)
(* log artifacts they write.                                               *)
(*                                                                         *)
(* Text values (operator input, file cells, rendered values) are sequences *)
(* of one-character strings, so that parsing and rendering are computed.   *)
(* Column names and catalog type names are atomic strings.                 *)
(***************************************************************************)
EXTENDS Integers, Sequences, FiniteSets, TLC

(***************************************************************************)
(* Bounds of the model.                                                    *)
(***************************************************************************)
\* rows of the source DataFrame
MaxFilas == 3
\* row attempts of one interactive session
MaxIntentos == 3
\* invalid-format re-prompts of one interactive session
MaxReintentos == 2
\* columns of a source header
MaxColumnas == 3

(***************************************************************************)
(* Values.  A value is a record [t, n, s]: t is the Python type, n the     *)
(* number it holds (a datetime holds yyyymmdd, its time part is midnight), *)
(* s the text it holds.                                                    *)
(***************************************************************************)
IntV(k) == [t |-> "int", n |-> k, e |-> 0, s |-> <<>>]
StrV(cs) == [t |-> "str", n |-> 0, e |-> 0, s |-> cs]
DateV(ymd) == [t |-> "datetime", n |-> ymd, e |-> 0, s |-> <<>>]
\* a finite float: n * 10^(-e), with no trailing zero in the fraction
FloatV(m, ex) == [t |-> "float", n |-> m, e |-> ex, s |-> <<>>]
\* float nan and the infinities: s names which, n is the sign
FloatSpecial(name, sign) == [t |-> "float", n |-> sign, e |-> 0, s |-> name]
\* pandas' missing-value marker
NaN == [t |-> "nan", n |-> 0, e |-> 0, s |-> <<>>]
\* datetime.datetime.now()
NowV == [t |-> "now", n |-> 0, e |-> 0, s |-> <<>>]
\* f"{datetime.datetime.now().strftime('%Y-%m-%d %H:%M:%S')} Python"
NowPythonV == StrV(<<"<now>", " ", "P", "y", "t", "h", "o", "n">>)

Digits == <<"0", "1", "2", "3", "4", "5", "6", "7", "8", "9">>
IsDigit(c) == \E i \in 1..Len(Digits) : Digits[i] = c
DigitVal(c) == (CHOOSE i \in 1..Len(Digits) : Digits[i] = c) - 1

\* str.lower() on the characters the model uses
LowerChar(c) ==
    CASE c = "T" -> "t" [] c = "R" -> "r" [] c = "U" -> "u" [] c = "E" -> "e"
      [] c = "F" -> "f" [] c = "A" -> "a" [] c = "L" -> "l" [] c = "S" -> "s"
      [] c = "I" -> "i" [] c = "N" -> "n" [] c = "O" -> "o" [] c = "Y" -> "y"
      [] c = "Í" -> "í" [] c = "B" -> "b" [] c = "C" -> "c"
      [] OTHER -> c
LowerText(cs) == [i \in 1..Len(cs) |-> LowerChar(cs[i])]

\* str(int): decimal rendering
RECURSIVE NatToText(_)
NatToText(k) ==
    IF k < 10 THEN <<Digits[k + 1]>>
    ELSE NatToText(k \div 10) \o <<Digits[(k % 10) + 1]>>
IntToText(k) == IF k < 0 THEN <<"-">> \o NatToText(-k) ELSE NatToText(k)

\* zero-padded rendering on w digits (strftime fields)
RECURSIVE Pad(_, _)
Pad(cs, w) == IF Len(cs) >= w THEN cs ELSE Pad(<<"0">> \o cs, w)

RECURSIVE Pow10(_)
Pow10(k) == IF k = 0 THEN 1 ELSE 10 * Pow10(k - 1)

\* str(value) as Python renders it
Str(v) ==
    CASE v.t = "int" -> IntToText(v.n)
      [] v.t = "str" -> v.s
      [] v.t = "datetime" ->
            Pad(NatToText(v.n \div 10000), 4) \o <<"-">>
            \o Pad(NatToText((v.n \div 100) % 100), 2) \o <<"-">>
            \o Pad(NatToText(v.n % 100), 2)
            \o <<" ", "0", "0", ":", "0", "0", ":", "0", "0">>
      [] v.t = "float" ->
            IF v.s = <<"n", "a", "n">> THEN v.s
            ELSE IF v.s # <<>> THEN (IF v.n < 0 THEN <<"-">> ELSE <<>>) \o v.s
            ELSE LET scale == Pow10(v.e)
                     mag == IF v.n < 0 THEN -v.n ELSE v.n
                 IN  (IF v.n < 0 THEN <<"-">> ELSE <<>>)
                     \o NatToText(mag \div scale) \o <<".">>
                     \o (IF v.e = 0 THEN <<"0">>
                         ELSE Pad(NatToText(mag % scale), v.e))
      [] v.t = "nan" -> <<"n", "a", "n">>
      [] OTHER -> <<"<now>">>

(***************************************************************************)
(* Parsing, as the Python built-ins do it on an already stripped string.   *)
(***************************************************************************)
Signed(cs) == cs # <<>> /\ cs[1] \in {"+", "-"}
Unsigned(cs) == IF Signed(cs) THEN Tail(cs) ELSE cs
SignOf(cs) == IF cs # <<>> /\ cs[1] = "-" THEN -1 ELSE 1

\* digits, single underscores allowed between two digits
IsDigitRun(cs) ==
    /\ Len(cs) >= 1
    /\ \A i \in 1..Len(cs) :
          \/ IsDigit(cs[i])
          \/ /\ cs[i] = "_"
             /\ 1 < i /\ i < Len(cs)
             /\ IsDigit(cs[i - 1]) /\ IsDigit(cs[i + 1])

RECURSIVE DigitRunVal(_, _)
DigitRunVal(cs, acc) ==
    IF cs = <<>> THEN acc
    ELSE IF cs[1] = "_" THEN DigitRunVal(Tail(cs), acc)
    ELSE DigitRunVal(Tail(cs), acc * 10 + DigitVal(cs[1]))

\* number of digits of a digit run
RECURSIVE DigitCount(_)
DigitCount(cs) ==
    IF cs = <<>> THEN 0
    ELSE (IF cs[1] = "_" THEN 0 ELSE 1) + DigitCount(Tail(cs))

\* int(entrada): [ok, valor]
ParseInt(cs) ==
    IF IsDigitRun(Unsigned(cs))
    THEN [ok |-> TRUE, valor |-> IntV(SignOf(cs) * DigitRunVal(Unsigned(cs), 0))]
    ELSE [ok |-> FALSE, valor |-> NaN]

\* position of the first c in cs, 0 when absent
FirstIndex(cs, c) ==
    IF \E i \in 1..Len(cs) : cs[i] = c
    THEN CHOOSE i \in 1..Len(cs) : cs[i] = c /\ \A j \in 1..(i - 1) : cs[j] # c
    ELSE 0

\* m * 10^(-ex) with the trailing zeros of the fraction removed
RECURSIVE Normal(_, _)
Normal(m, ex) ==
    IF ex > 0 /\ m % 10 = 0 THEN Normal(m \div 10, ex - 1) ELSE FloatV(m, ex)

\* float(entrada) on decimal literals without exponent, nan and inf: [ok, valor]
ParseFloat(cs) ==
    LET body == Unsigned(cs)
        low == LowerText(body)
        dot == FirstIndex(body, ".")
        whole == IF dot = 0 THEN body ELSE SubSeq(body, 1, dot - 1)
        frac == IF dot = 0 THEN <<>> ELSE SubSeq(body, dot + 1, Len(body))
    IN  IF low \in {<<"n", "a", "n">>, <<"i", "n", "f">>,
                    <<"i", "n", "f", "i", "n", "i", "t", "y">>}
        THEN [ok |-> TRUE,
              valor |-> FloatSpecial(SubSeq(low, 1, 3), SignOf(cs))]
        ELSE IF /\ whole # <<>> \/ frac # <<>>
                /\ whole = <<>> \/ IsDigitRun(whole)
                /\ frac = <<>> \/ IsDigitRun(frac)
        THEN [ok |-> TRUE,
              valor |-> Normal(SignOf(cs) * (DigitRunVal(whole, 0) * Pow10(DigitCount(frac))
                                            + DigitRunVal(frac, 0)),
                               DigitCount(frac))]
        ELSE [ok |-> FALSE, valor |-> NaN]

\* mutant of ParseBit: yes and y are taken as 1, n as 0
ParseBitYes(cs) ==
    IF LowerText(cs) \in {<<"1">>, <<"t", "r", "u", "e">>, <<"s", "í">>, <<"s", "i">>,
                          <<"y", "e", "s">>, <<"y">>}
    THEN [ok |-> TRUE, valor |-> IntV(1)]
    ELSE IF LowerText(cs) \in {<<"0">>, <<"f", "a", "l", "s", "e">>, <<"n", "o">>, <<"n">>}
    THEN [ok |-> TRUE, valor |-> IntV(0)]
    ELSE [ok |-> FALSE, valor |-> NaN]

\* the bit branch: entrada.lower() against the two literal lists
ParseBit(cs) ==
    IF LowerText(cs) \in {<<"1">>, <<"t", "r", "u", "e">>, <<"s", "í">>, <<"s", "i">>}
    THEN [ok |-> TRUE, valor |-> IntV(1)]
    ELSE IF LowerText(cs) \in {<<"0">>, <<"f", "a", "l", "s", "e">>, <<"n", "o">>}
    THEN [ok |-> TRUE, valor |-> IntV(0)]
    ELSE [ok |-> FALSE, valor |-> NaN]

IsLeap(y) == (y % 4 = 0 /\ y % 100 # 0) \/ y % 400 = 0
DaysIn(y, m) ==
    IF m = 2 THEN (IF IsLeap(y) THEN 29 ELSE 28)
    ELSE IF m \in {4, 6, 9, 11} THEN 30 ELSE 31

\* one strptime month or day field: one or two digits (no underscores)
IsField(cs) == Len(cs) \in {1, 2} /\ \A i \in 1..Len(cs) : IsDigit(cs[i])

\* datetime.datetime.strptime(entrada, "%Y-%m-%d"): [ok, valor]
ParseDate(cs) ==
    LET rest == SubSeq(cs, 6, Len(cs))
        dash == FirstIndex(rest, "-")
        mm == SubSeq(rest, 1, dash - 1)
        dd0 == SubSeq(rest, dash + 1, Len(rest))
        \* %d also matches a space followed by one digit
        dd == IF Len(dd0) = 2 /\ dd0[1] = " " THEN Tail(dd0) ELSE dd0
        y == DigitRunVal(SubSeq(cs, 1, 4), 0)
        m == DigitRunVal(mm, 0)
        d == DigitRunVal(dd, 0)
    IN  IF /\ Len(cs) >= 8
           /\ \A i \in 1..4 : IsDigit(cs[i])
           /\ cs[5] = "-"
           /\ dash > 0
           /\ IsField(mm) /\ IsField(dd)
           /\ y >= 1
           /\ m >= 1 /\ m <= 12
           /\ d >= 1 /\ d <= DaysIn(y, m)
        THEN [ok |-> TRUE, valor |-> DateV(y * 10000 + m * 100 + d)]
        ELSE [ok |-> FALSE, valor |-> NaN]

\* mutant of Categoria: money and smallmoney are not listed and fall to Text
CategoriaSinMoney(tipo_sql) ==
    IF tipo_sql \in {"int", "bigint", "smallint", "tinyint"} THEN "Integer"
    ELSE IF tipo_sql \in {"float", "real", "decimal", "numeric"} THEN "Real"
    ELSE IF tipo_sql \in {"bit"} THEN "Boolean"
    ELSE IF tipo_sql \in {"date", "datetime", "smalldatetime", "datetime2"} THEN "DateTime"
    ELSE "Text"

\* the type dispatch on the lower-cased catalog type name
Categoria(tipo_sql) ==
    IF tipo_sql \in {"int", "bigint", "smallint", "tinyint"} THEN "Integer"
    ELSE IF tipo_sql \in {"float", "real", "decimal", "numeric", "money", "smallmoney"}
    THEN "Real"
    ELSE IF tipo_sql \in {"bit"} THEN "Boolean"
    ELSE IF tipo_sql \in {"date", "datetime", "smalldatetime", "datetime2"} THEN "DateTime"
    ELSE "Text"

\* validation of one typed-in field: [ok, valor]
Coerce(tipo_sql, entrada) ==
    CASE Categoria(tipo_sql) = "Integer" -> ParseInt(entrada)
      [] Categoria(tipo_sql) = "Real" -> ParseFloat(entrada)
      [] Categoria(tipo_sql) = "Boolean" -> ParseBit(entrada)
      [] Categoria(tipo_sql) = "DateTime" -> ParseDate(entrada)
      [] OTHER -> [ok |-> TRUE, valor |-> StrV(entrada)]

(***************************************************************************)
(* The inputs: target tables, source headers, file cells, typed entries.   *)
(***************************************************************************)
Col(nombre, tipo) == [nombre |-> nombre, tipo |-> tipo]

\* target tables: catalog column order, DATA_TYPE as the catalog spells it
Esquemas ==
    { <<Col("id", "int"), Col("name", "varchar"), Col("Bi_ejecucion", "datetime")>>,
      <<Col("id", "int"), Col("name", "varchar")>>,
      <<Col("activo", "bit"), Col("fecha", "date"), Col("BI_EJECUCION", "varchar")>>,
      <<Col("error", "varchar"), Col("Bi_ejecucion", "datetime")>> }

\* column names a source file may carry
NombresArchivo == {"id", "name", "ID", "extra", "Bi_ejecucion"}


\* sequences over S without repetition, of length at most k
RECURSIVE SinRepetir(_, _)
SinRepetir(S, k) ==
    IF k = 0 THEN {<<>>}
    ELSE LET menores == SinRepetir(S, k - 1)
         IN  menores \cup
             UNION { {Append(q, x) : x \in S \ {q[i] : i \in 1..Len(q)}} :
                     q \in {r \in menores : Len(r) = k - 1} }

\* headers of the source DataFrame (pandas keeps column labels distinct)
Encabezados == SinRepetir(NombresArchivo, MaxColumnas)

\* cells of the source DataFrame
Celdas == {NaN, IntV(7), StrV(<<"a", "b", "c">>)}

\* first label of the DataFrame index: 0 for a RangeIndex, another number when
\* the reader took the index from the file (read_json keys, read_csv index column)
PrimerasEtiquetas == {0, 5}

\* what the operator types at a field prompt (after strip)
Entradas ==
    { <<"7">>, <<"a", "b", "c">>, <<"S", "i">>, <<"A", "n", "a">>,
      <<"2", "0", "2", "4", "-", "0", "3", "-", "0", "5">> }

\* DATA_TYPE names of the catalog, for a table of one column
TiposCatalogo ==
    { "int", "bigint", "smallint", "tinyint",
      "float", "real", "decimal", "numeric", "money", "smallmoney",
      "bit",
      "date", "datetime", "smalldatetime", "datetime2",
      "varchar", "nvarchar", "char", "text", "time", "datetimeoffset",
      "uniqueidentifier", "varbinary", "xml" }

\* a wider choice of entries for one field prompt
EntradasCampo ==
    Entradas \cup
    { <<>>, <<"4", "2">>, <<"0", "0", "7">>, <<"+", "7">>, <<"-", "3">>, <<"1", "_", "0">>,
      <<"1", ".", "5", "0">>, <<".", "5">>, <<"5", ".">>, <<"-", "0", ".", "2", "5">>,
      <<"n", "a", "n">>, <<"-", "N", "a", "N">>, <<"i", "n", "f">>, <<"-", "I", "n", "f">>,
      <<"1">>, <<"0">>, <<"t", "r", "u", "e">>, <<"T", "R", "U", "E">>,
      <<"f", "a", "l", "s", "e">>, <<"F", "a", "l", "s", "e">>,
      <<"s", "í">>, <<"S", "Í">>, <<"s", "i">>, <<"n", "o">>, <<"N", "O">>,
      <<"y", "e", "s">>, <<"y">>, <<"n">>, <<"2">>, <<"o", "n">>,
      <<"2", "0", "2", "4", "-", "3", "-", "5">>,
      <<"2", "0", "2", "4", "-", "0", "2", "-", "2", "9">>,
      <<"2", "0", "2", "3", "-", "0", "2", "-", "2", "9">>,
      <<"2", "0", "2", "4", "-", "0", "3", "-", "0", "5", " ", "0", "0", ":", "0", "0", ":", "0", "0">>,
      <<"0", "5", "/", "0", "3", "/", "2", "0", "2", "4">> }

\* sys.databases of the server
BasesDeDatos == {"ventas", "master"}

\* sys.tables of each database: the target table is ventas.clientes
TablasDe(bd) == IF bd = "ventas" THEN {"clientes"} ELSE {}

\* what the operator types at the database prompt and at the table prompt
NombresBD == {"ventas", "master", "compras"}
NombresTabla == {"clientes", "pedidos"}

\* what the operator types at the continue prompt
Respuestas == { <<"s">>, <<"S">>, <<"n">>, <<"s", "i">>, <<>> }

\* str.lower() on column names
LowerName(nombre) ==
    CASE nombre = "ID" -> "id"
      [] nombre = "Bi_ejecucion" -> "bi_ejecucion"
      [] nombre = "BI_EJECUCION" -> "bi_ejecucion"
      [] OTHER -> nombre

Range(q) == {q[i] : i \in 1..Len(q)}

(***************************************************************************)
(* State.                                                                  *)
(***************************************************************************)
VARIABLES
    modo,               \* "manual" (carga_manual) or "archivo" (carga_por_archivo)
    pc,                 \* position in the running function
    nombre_bd,          \* the database name last typed
    nombre_tabla,       \* the table name last typed
    contexto,           \* the database the connection is in (USE)
    mensaje,            \* what the last round of a validation loop printed
    tabla,              \* the validated target table: its catalog columns
    columnas_archivo,   \* df.columns.tolist()
    nfilas,             \* len(df)
    etiqueta0,          \* first label of df.index
    columnas,           \* manual: columnas; batch: columnas_sql
    columnas_sql_sin_ejecucion,
    diagnostico,        \* the printed mismatch: <<>> or <<[faltantes, sobrantes]>>
    iterados,           \* rows of df that iterrows() has yielded
    idx,                \* index label of the current row
    fila,               \* batch: the current row (name -> cell); manual: the value list
    row_num,
    valores,
    filas_procesadas,
    filas_cargadas,
    errores,
    attempt_counter,
    filas_insertadas,
    filas_insertadas_data,
    fila_dict_for_log,
    reintentos,         \* "Formato inválido" messages printed
    entrada,            \* the last entry typed at a field prompt, stripped
    continuar,          \* the last answer to the continue prompt, lower-cased
    afirmativas,        \* answers s given to the continue prompt so far
    ejecutadas,         \* INSERT statements sent with cursor.execute
    pendientes,         \* rows inserted in the open transaction
    confirmadas,        \* rows durably committed
    commits,            \* calls of cursor.connection.commit()
    summary_txt,        \* the summary file: <<>> until written
    inserted_csv,       \* the inserted-rows file
    errors_csv,         \* the failures file
    resultado           \* how the function returned

vars == << modo, pc, nombre_bd, nombre_tabla, contexto, mensaje, tabla,
           columnas_archivo, nfilas, etiqueta0, columnas,
           columnas_sql_sin_ejecucion, diagnostico, iterados, idx, fila, row_num,
           valores, filas_procesadas, filas_cargadas, errores, attempt_counter,
           filas_insertadas, filas_insertadas_data, fila_dict_for_log, reintentos,
           entrada, continuar, afirmativas, ejecutadas, pendientes, confirmadas,
           commits,
           summary_txt, inserted_csv, errors_csv, resultado >>

entrada_vars == << modo, tabla, columnas_archivo, nfilas, etiqueta0,
                   nombre_bd, nombre_tabla, contexto, mensaje >>
archivo_vars == << columnas_sql_sin_ejecucion, diagnostico, iterados, idx, row_num,
                   valores,
                   filas_procesadas, filas_cargadas >>
manual_vars == << attempt_counter, filas_insertadas, filas_insertadas_data,
                  fila_dict_for_log, reintentos, entrada, continuar,
                  afirmativas >>
bd_vars == << ejecutadas, pendientes, confirmadas, commits >>
log_vars == << summary_txt, inserted_csv, errors_csv >>

NoEscrito == [escrito |-> FALSE, fieldnames |-> <<>>, rows |-> <<>>]

Init ==
    /\ modo \in {"manual", "archivo"}
    /\ tabla \in Esquemas
    /\ columnas_archivo \in (IF modo = "archivo" THEN Encabezados ELSE {<<>>})
    /\ nfilas \in (IF modo = "archivo" THEN 0..MaxFilas ELSE {0})
    /\ etiqueta0 \in (IF modo = "archivo" THEN PrimerasEtiquetas ELSE {0})
    /\ pc = "v_bd"
    /\ nombre_bd = ""
    /\ nombre_tabla = ""
    /\ contexto = "master"
    /\ mensaje = ""
    /\ columnas = <<>>
    /\ columnas_sql_sin_ejecucion = <<>>
    /\ diagnostico = <<>>
    /\ iterados = 0
    /\ idx = 0
    /\ fila = <<>>
    /\ row_num = 0
    /\ valores = <<>>
    /\ filas_procesadas = 0
    /\ filas_cargadas = 0
    /\ errores = <<>>
    /\ attempt_counter = 0
    /\ filas_insertadas = 0
    /\ filas_insertadas_data = <<>>
    /\ fila_dict_for_log = <<>>
    /\ reintentos = 0
    /\ entrada = <<>>
    /\ continuar = <<>>
    /\ afirmativas = 0
    /\ ejecutadas = <<>>
    /\ pendientes = {}
    /\ confirmadas = {}
    /\ commits = 0
    /\ summary_txt = <<>>
    /\ inserted_csv = NoEscrito
    /\ errors_csv = NoEscrito
    /\ resultado = ""

(***************************************************************************)
(* The database.  pyodbc opens the connection with autocommit off: an      *)
(* accepted INSERT stays in the open transaction until a commit succeeds.  *)
(***************************************************************************)
Nombres(t) == [i \in 1..Len(t) |-> t[i].nombre]
Tipos(t) == [c \in Range(Nombres(t)) |-> t[CHOOSE i \in 1..Len(t) : t[i].nombre = c].tipo]

\* the server resolves a column name of a statement (default collation: no case)
ColumnaExiste(t, nombre) ==
    \E i \in 1..Len(t) : LowerName(t[i].nombre) = LowerName(nombre)

\* one cursor.execute of an INSERT, accepted by the server or not
Sentencia(id, cols, vals, getdate, aceptada) ==
    [fila |-> id, columnas |-> cols, valores |-> vals, getdate |-> getdate,
     aceptada |-> aceptada]

\* mutant of Commit: the commit keeps only the rows of the last transaction
CommitSoloAbiertas(hechas, abiertas) == abiertas

\* a successful cursor.connection.commit(): the open transaction becomes durable
Commit(hechas, abiertas) == hechas \cup abiertas

\* mutant of Registrar: the failure is caught and not recorded
RegistrarPerdido(lista, registro) == lista

\* errores.append(registro)
Registrar(lista, registro) == Append(lista, registro)

\* mutant of Contar: the increment is lost
ContarOlvidado(n) == n

\* filas_cargadas += 1, filas_insertadas += 1
Contar(n) == n + 1

\* mutant of HayQueEscribir: the log file is written whatever the list holds
EscribirSiempre(lista) == TRUE

\* if errores: / if filas_insertadas_data: a log file is written for a non-empty list
HayQueEscribir(lista) == lista # <<>>

(***************************************************************************)
(* validar_base_datos, validar_tabla                                       *)
(***************************************************************************)
\* SELECT name FROM sys.databases WHERE name = ? returned a row
BaseExiste(nombre) == nombre \in BasesDeDatos

\* mutant of TablaExiste: the table is looked up in every database of the server
TablaExisteEnAlguna(bd, nombre) == \E otra \in BasesDeDatos : nombre \in TablasDe(otra)

\* SELECT name FROM sys.tables WHERE name = ? returned a row, in the database the
\* connection is in
TablaExiste(bd, nombre) == nombre \in TablasDe(bd)

\* the columns the catalog holds for a table name in a database
Catalogo(bd, nombre) == IF nombre \in TablasDe(bd) THEN tabla ELSE <<>>

\* after validar_tabla returns: the loader goes on
TrasValidar == IF modo = "manual" THEN "m_esquema" ELSE "f_columnas"

\* a round of validar_base_datos with a name the server has: USE, return
ValidarBaseDatos ==
    /\ pc = "v_bd"
    /\ \E nombre \in NombresBD :
          /\ BaseExiste(nombre)
          /\ nombre_bd' = nombre
          /\ contexto' = nombre
    /\ mensaje' = ""
    /\ pc' = "v_tabla"
    /\ UNCHANGED << modo, tabla, columnas_archivo, nfilas, etiqueta0, nombre_tabla,
                    archivo_vars, manual_vars, bd_vars, log_vars, columnas, fila,
                    errores, resultado >>

\* a round of validar_base_datos with a name the server has not: message, again
ValidarBaseDatosNoExiste ==
    /\ pc = "v_bd"
    /\ \E nombre \in NombresBD :
          /\ ~BaseExiste(nombre)
          /\ nombre_bd' = nombre
    /\ mensaje' = "La base de datos no existe. Intente nuevamente."
    /\ pc' = "v_bd"
    /\ UNCHANGED << modo, tabla, columnas_archivo, nfilas, etiqueta0, nombre_tabla,
                    contexto, archivo_vars, manual_vars, bd_vars, log_vars, columnas,
                    fila, errores, resultado >>

\* a round of validar_tabla with a name the current database has: return
ValidarTabla ==
    /\ pc = "v_tabla"
    /\ \E nombre \in NombresTabla :
          /\ TablaExiste(contexto, nombre)
          /\ nombre_tabla' = nombre
    /\ mensaje' = ""
    /\ pc' = TrasValidar
    /\ UNCHANGED << modo, tabla, columnas_archivo, nfilas, etiqueta0, nombre_bd,
                    contexto, archivo_vars, manual_vars, bd_vars, log_vars, columnas,
                    fila, errores, resultado >>

\* a round of validar_tabla with a name the current database has not: message,
\* again
ValidarTablaNoExiste ==
    /\ pc = "v_tabla"
    /\ \E nombre \in NombresTabla :
          /\ ~TablaExiste(contexto, nombre)
          /\ nombre_tabla' = nombre
    /\ mensaje' = "La tabla no existe. Verifique el nombre."
    /\ pc' = "v_tabla"
    /\ UNCHANGED << modo, tabla, columnas_archivo, nfilas, etiqueta0, nombre_bd,
                    contexto, archivo_vars, manual_vars, bd_vars, log_vars, columnas,
                    fila, errores, resultado >>

(***************************************************************************)
(* carga_por_archivo                                                       *)
(***************************************************************************)
\* mutant of SinEjecucion: the managed column is not filtered out
SinEjecucionSinFiltro(cols) == cols

\* [col for col in columnas_sql if col.lower() != "bi_ejecucion"]
SinEjecucion(cols) == SelectSeq(cols, LAMBDA c : LowerName(c) # "bi_ejecucion")

\* mutant of Faltantes: every table column is listed as missing
FaltantesTodas(sql_sin, archivo) == sql_sin

\* [col for col in columnas_sql_sin_ejecucion if col not in columnas_archivo]
Faltantes(sql_sin, archivo) == SelectSeq(sql_sin, LAMBDA c : c \notin Range(archivo))

\* [col for col in columnas_archivo if col not in columnas_sql_sin_ejecucion]
Sobrantes(sql_sin, archivo) == SelectSeq(archivo, LAMBDA c : c \notin Range(sql_sin))

\* mutant of NoCoinciden: extra columns of the source are not looked at
NoCoincidenSoloFaltantes(sql_sin, archivo) == Faltantes(sql_sin, archivo) # <<>>

\* if columnas_faltantes or columnas_sobrantes
NoCoinciden(sql_sin, archivo) ==
    Faltantes(sql_sin, archivo) # <<>> \/ Sobrantes(sql_sin, archivo) # <<>>

\* mutant of ValorFila: the cell is rendered as text before it is bound
ValorFilaTexto(f, col) == StrV(Str(f[col]))

\* val = fila[col]; valores.append(val)
ValorFila(f, col) == f[col]

\* mutant of TrasRechazo: the return is missing and the row loop is entered
TrasRechazoSinReturn == "f_filas"

\* the return that ends the mismatch branch
TrasRechazo == "fin"

\* pd.isna(val)
IsNa(val) == val = NaN

\* raise ValueError(f"Campo '{col}' en blanco (fila {row_num})")
ErrorEnBlanco(col, num) ==
    [clase |-> "ValueError",
     mensaje |-> <<"Campo '", col, "' en blanco (fila ">> \o IntToText(num) \o <<")">>]
\* the error pyodbc raises from execute or from commit
ErrorDriver(origen) ==
    [clase |-> "pyodbc.Error", mensaje |-> <<"[SQL Server]", origen>>]

\* str(e)
Texto(e) == e.mensaje

\* traceback.format_exc()
Traza(e) == <<"Traceback (most recent call last):", e.clase>> \o e.mensaje

\* mutant of RowData: a missing cell is left out of the snapshot
RowDataSinBlancos(f, sql_sin) ==
    [c \in {d \in Range(sql_sin) : ~IsNa(f[d])} |-> Str(f[c])]

\* {col: ("" if pd.isna(fila[col]) else str(fila[col])) for col in ...}
RowData(f, sql_sin) ==
    [c \in Range(sql_sin) |-> IF IsNa(f[c]) THEN <<>> ELSE Str(f[c])]

\* {"row": row_num, "error": str(e), "traceback": tb, **row_data}
ErrorArchivo(num, e, f, sql_sin) ==
    RowData(f, sql_sin) @@ ("row" :> num @@ "error" :> Texto(e) @@ "traceback" :> Traza(e))

\* {k: e.get(k, "") for k in fieldnames}
FilaCsv(e, fieldnames) ==
    [k \in Range(fieldnames) |-> IF k \in DOMAIN e THEN e[k] ELSE <<>>]

Csv(fieldnames, rows) ==
    [escrito |-> TRUE, fieldnames |-> fieldnames,
     rows |-> [i \in 1..Len(rows) |-> FilaCsv(rows[i], fieldnames)]]

\* the summary text: its counters
Summary(intentos, correctas, con_error) ==
    [intentos |-> intentos, correctas |-> correctas, con_error |-> con_error]

\* mutant of ColumnasInsert: the managed column is named only when the table has it
ColumnasInsertSiExiste(sql_sin) ==
    IF Len(sql_sin) < Len(columnas) THEN Append(sql_sin, "Bi_ejecucion") ELSE sql_sin

\* mutant of ColumnasInsert: the statement does not name the managed column
ColumnasInsertSinGestionada(sql_sin) == sql_sin

\* ", ".join(columnas_sql_sin_ejecucion) + ", Bi_ejecucion"
ColumnasInsert(sql_sin) == Append(sql_sin, "Bi_ejecucion")

\* first column of the row, in schema order, whose cell is missing (0: none)
PrimerBlanco(f, sql_sin) ==
    IF \E i \in 1..Len(sql_sin) : IsNa(f[sql_sin[i]])
    THEN CHOOSE i \in 1..Len(sql_sin) :
            IsNa(f[sql_sin[i]]) /\ \A j \in 1..(i - 1) : ~IsNa(f[sql_sin[j]])
    ELSE 0

\* SELECT TOP 0 raised
FileColumnasError ==
    /\ pc = "f_columnas"
    /\ pc' = "fin"
    /\ resultado' = "error_columnas"
    /\ UNCHANGED << entrada_vars, archivo_vars, manual_vars, bd_vars, log_vars,
                    columnas, fila, errores >>

\* SELECT TOP 0 answered: columnas_sql, columnas_sql_sin_ejecucion
FileColumnas ==
    /\ pc = "f_columnas"
    /\ nombre_tabla \in TablasDe(contexto)
    /\ columnas' = Nombres(Catalogo(contexto, nombre_tabla))
    /\ columnas_sql_sin_ejecucion' = SinEjecucion(columnas')
    /\ pc' = "f_reconciliar"
    /\ UNCHANGED << entrada_vars, diagnostico, iterados, idx, row_num, valores,
                    filas_procesadas, filas_cargadas, manual_vars, bd_vars,
                    log_vars, fila, errores, resultado >>

\* the header does not match: print the two lists and return
FileRechazar ==
    /\ pc = "f_reconciliar"
    /\ NoCoinciden(columnas_sql_sin_ejecucion, columnas_archivo)
    /\ diagnostico' =
          << [faltantes |-> Faltantes(columnas_sql_sin_ejecucion, columnas_archivo),
              sobrantes |-> Sobrantes(columnas_sql_sin_ejecucion, columnas_archivo)] >>
    /\ pc' = TrasRechazo
    /\ resultado' = "columnas_no_coinciden"
    /\ UNCHANGED << entrada_vars, columnas_sql_sin_ejecucion, iterados, idx, row_num,
                    valores, filas_procesadas, filas_cargadas, manual_vars, bd_vars,
                    log_vars, columnas, fila, errores >>

\* the header matches: counters and failure list start empty
FileAceptar ==
    /\ pc = "f_reconciliar"
    /\ ~NoCoinciden(columnas_sql_sin_ejecucion, columnas_archivo)
    /\ filas_procesadas' = 0
    /\ filas_cargadas' = 0
    /\ errores' = <<>>
    /\ pc' = "f_filas"
    /\ UNCHANGED << entrada_vars, columnas_sql_sin_ejecucion, diagnostico, iterados,
                    idx, row_num, valores, manual_vars, bd_vars, log_vars, columnas,
                    fila, resultado >>

\* for idx, fila in df.iterrows(): the next row, counted as processed
FileSiguienteFila ==
    /\ pc = "f_filas"
    /\ iterados < nfilas
    /\ \E f \in [Range(columnas_archivo) -> Celdas] : fila' = f
    /\ iterados' = iterados + 1
    /\ idx' = etiqueta0 + iterados
    /\ row_num' = idx' + 1
    /\ filas_procesadas' = filas_procesadas + 1
    /\ pc' = "f_valores"
    /\ UNCHANGED << entrada_vars, columnas_sql_sin_ejecucion, diagnostico, valores,
                    filas_cargadas, manual_vars, bd_vars, log_vars, columnas,
                    errores, resultado >>

\* a missing cell: ValueError, caught, the row goes to the failure list
FileEnBlanco ==
    /\ pc = "f_valores"
    /\ PrimerBlanco(fila, columnas_sql_sin_ejecucion) # 0
    /\ LET col == columnas_sql_sin_ejecucion[PrimerBlanco(fila, columnas_sql_sin_ejecucion)]
       IN  errores' = Registrar(errores,
                ErrorArchivo(row_num, ErrorEnBlanco(col, row_num), fila,
                             columnas_sql_sin_ejecucion))
    /\ pc' = "f_filas"
    /\ UNCHANGED << entrada_vars, archivo_vars, manual_vars, bd_vars, log_vars,
                    columnas, fila, resultado >>

\* no missing cell: the cells are appended as they are
FileValores ==
    /\ pc = "f_valores"
    /\ PrimerBlanco(fila, columnas_sql_sin_ejecucion) = 0
    /\ valores' = [i \in 1..Len(columnas_sql_sin_ejecucion) |->
                      ValorFila(fila, columnas_sql_sin_ejecucion[i])]
    /\ pc' = "f_execute"
    /\ UNCHANGED << entrada_vars, columnas_sql_sin_ejecucion, diagnostico, iterados,
                    idx, row_num, filas_procesadas, filas_cargadas, manual_vars,
                    bd_vars, log_vars, columnas, fila, errores, resultado >>

\* cursor.execute(sentencia, valores) raised
FileExecuteError ==
    /\ pc = "f_execute"
    /\ ejecutadas' = Append(ejecutadas,
          Sentencia(filas_procesadas, ColumnasInsert(columnas_sql_sin_ejecucion),
                    valores, TRUE, FALSE))
    /\ errores' = Registrar(errores,
          ErrorArchivo(row_num, ErrorDriver("execute"), fila, columnas_sql_sin_ejecucion))
    /\ pc' = "f_filas"
    /\ UNCHANGED << entrada_vars, archivo_vars, manual_vars, pendientes, confirmadas,
                    commits, log_vars, columnas, fila, resultado >>

\* cursor.execute(sentencia, valores) returned
FileExecute ==
    /\ pc = "f_execute"
    /\ \A i \in 1..Len(ColumnasInsert(columnas_sql_sin_ejecucion)) :
          ColumnaExiste(tabla, ColumnasInsert(columnas_sql_sin_ejecucion)[i])
    /\ ejecutadas' = Append(ejecutadas,
          Sentencia(filas_procesadas, ColumnasInsert(columnas_sql_sin_ejecucion),
                    valores, TRUE, TRUE))
    /\ pendientes' = pendientes \cup {filas_procesadas}
    /\ pc' = "f_commit"
    /\ UNCHANGED << entrada_vars, archivo_vars, manual_vars, confirmadas, commits,
                    log_vars, columnas, fila, errores, resultado >>

\* cursor.connection.commit() raised: caught like any other error of the row
FileCommitError ==
    /\ pc = "f_commit"
    /\ commits' = commits + 1
    /\ errores' = Registrar(errores,
          ErrorArchivo(row_num, ErrorDriver("commit"), fila, columnas_sql_sin_ejecucion))
    /\ pc' = "f_filas"
    /\ UNCHANGED << entrada_vars, archivo_vars, manual_vars, ejecutadas, pendientes,
                    confirmadas, log_vars, columnas, fila, resultado >>

\* cursor.connection.commit() returned; filas_cargadas += 1
FileCommit ==
    /\ pc = "f_commit"
    /\ commits' = commits + 1
    /\ confirmadas' = Commit(confirmadas, pendientes)
    /\ pendientes' = {}
    /\ filas_cargadas' = Contar(filas_cargadas)
    /\ pc' = "f_filas"
    /\ UNCHANGED << entrada_vars, columnas_sql_sin_ejecucion, diagnostico, iterados,
                    idx, row_num, valores, filas_procesadas, manual_vars, ejecutadas,
                    log_vars, columnas, fila, errores, resultado >>

\* the source is exhausted: summary, and the failures file if there are failures
FileLogs ==
    /\ pc = "f_filas"
    /\ iterados = nfilas
    /\ summary_txt' = <<Summary(filas_procesadas, filas_cargadas, Len(errores))>>
    /\ errors_csv' =
          IF HayQueEscribir(errores)
          THEN Csv(<<"row", "error", "traceback">> \o columnas_sql_sin_ejecucion, errores)
          ELSE errors_csv
    /\ pc' = "fin"
    /\ resultado' = "finalizada"
    /\ UNCHANGED << entrada_vars, archivo_vars, manual_vars, bd_vars, inserted_csv,
                    columnas, fila, errores >>

(***************************************************************************)
(* carga_manual                                                            *)
(***************************************************************************)
\* mutant of ValorEjecucion: the managed column always gets the text form
ValorEjecucionTexto(tipo_sql) == NowPythonV

\* the value written into the Bi_ejecucion column
ValorEjecucion(tipo_sql) ==
    IF tipo_sql \in {"datetime", "smalldatetime", "datetime2", "date"}
    THEN NowV
    ELSE NowPythonV

\* {"attempt": n, "error": str(e), "traceback": tb, **fila_dict_for_log}
ErrorManual(num, e, dict) ==
    dict @@ ("attempt" :> num @@ "error" :> Texto(e) @@ "traceback" :> Traza(e))

\* the column the field loop is at
ColumnaActual == columnas[Len(fila) + 1]

\* after a value is appended: the next field, or the insert
TrasCampo(f) == IF Len(f) = Len(columnas) THEN "m_execute" ELSE "m_campo"

\* mutant of Anotar: the snapshot holds repr(valor), which quotes a text
AnotarRepr(dict, col, valor) ==
    (col :> (IF valor.t = "str" THEN <<"'">> \o valor.s \o <<"'">> ELSE Str(valor))) @@ dict

\* fila.append(valor); fila_dict_for_log[col] = str(valor)
Anotar(dict, col, valor) == (col :> Str(valor)) @@ dict

\* mutant of Reintentar: the rejected entry is kept as text and the loop moves on
ReintentarAceptando(f, valor) == Append(f, valor)

\* a rejected entry: the message is printed and the same field is asked again
Reintentar(f, valor) == f

\* mutant of TrasIntento: the prompt is missing and the loop starts the next row
TrasIntentoSinPregunta == "m_intento"

\* after the try/except of the insert: the continue prompt
TrasIntento == "m_continuar"

\* mutant of Afirmativa: the answer si also starts another row
AfirmativaSi(respuesta) == LowerText(respuesta) \in {<<"s">>, <<"s", "i">>}

\* continuar != "s" decides the break
Afirmativa(respuesta) == LowerText(respuesta) = <<"s">>

\* the INFORMATION_SCHEMA query raised
ManualEsquemaError ==
    /\ pc = "m_esquema"
    /\ pc' = "fin"
    /\ resultado' = "error_esquema"
    /\ UNCHANGED << entrada_vars, archivo_vars, manual_vars, bd_vars, log_vars,
                    columnas, fila, errores >>

\* the INFORMATION_SCHEMA query answered: columnas, tipos; the counters start
ManualEsquema ==
    /\ pc = "m_esquema"
    /\ columnas' = Nombres(Catalogo(nombre_bd, nombre_tabla))
    /\ filas_insertadas' = 0
    /\ errores' = <<>>
    /\ filas_insertadas_data' = <<>>
    /\ attempt_counter' = 0
    /\ pc' = "m_intento"
    /\ UNCHANGED << entrada_vars, archivo_vars, fila_dict_for_log, reintentos,
                    entrada, continuar, afirmativas, bd_vars, log_vars, fila,
                    resultado >>

\* top of the while loop: attempt_counter += 1, an empty row
ManualIntento ==
    /\ pc = "m_intento"
    /\ attempt_counter' = attempt_counter + 1
    /\ fila' = <<>>
    /\ fila_dict_for_log' = <<>>
    /\ pc' = TrasCampo(<<>>)
    /\ UNCHANGED << entrada_vars, archivo_vars, filas_insertadas,
                    filas_insertadas_data, reintentos, entrada, continuar, afirmativas,
                    bd_vars,
                    log_vars, columnas, errores, resultado >>

\* the column is Bi_ejecucion: filled without a prompt
ManualEjecucion ==
    /\ pc = "m_campo"
    /\ LowerName(ColumnaActual) = "bi_ejecucion"
    /\ LET valor == ValorEjecucion(Tipos(tabla)[ColumnaActual])
       IN  /\ fila' = Append(fila, valor)
           /\ fila_dict_for_log' = Anotar(fila_dict_for_log, ColumnaActual, valor)
           /\ pc' = TrasCampo(fila')
    /\ UNCHANGED << entrada_vars, archivo_vars, attempt_counter, filas_insertadas,
                    filas_insertadas_data, reintentos, entrada, continuar, afirmativas,
                    bd_vars,
                    log_vars, columnas, errores, resultado >>

\* a prompt whose entry, one of entradas, validates: the value is appended
CampoValido(entradas) ==
    /\ pc = "m_campo"
    /\ LowerName(ColumnaActual) # "bi_ejecucion"
    /\ \E tecleado \in entradas :
          LET r == Coerce(Tipos(tabla)[ColumnaActual], tecleado)
          IN  /\ r.ok
              /\ entrada' = tecleado
              /\ fila' = Append(fila, r.valor)
              /\ fila_dict_for_log' = Anotar(fila_dict_for_log, ColumnaActual, r.valor)
              /\ pc' = TrasCampo(fila')
    /\ UNCHANGED << entrada_vars, archivo_vars, attempt_counter, filas_insertadas,
                    filas_insertadas_data, reintentos, continuar, afirmativas, bd_vars,
                    log_vars,
                    columnas, errores, resultado >>

\* a prompt whose entry, one of entradas, does not validate: message, same field
\* again
CampoInvalido(entradas) ==
    /\ pc = "m_campo"
    /\ LowerName(ColumnaActual) # "bi_ejecucion"
    /\ reintentos < MaxReintentos
    /\ \E tecleado \in entradas :
          LET r == Coerce(Tipos(tabla)[ColumnaActual], tecleado)
          IN  /\ ~r.ok
              /\ entrada' = tecleado
              /\ fila' = Reintentar(fila, StrV(tecleado))
    /\ pc' = TrasCampo(fila')
    /\ reintentos' = reintentos + 1
    /\ UNCHANGED << entrada_vars, archivo_vars, attempt_counter, filas_insertadas,
                    filas_insertadas_data, fila_dict_for_log, continuar, afirmativas,
                    bd_vars,
                    log_vars, columnas, errores, resultado >>

ManualCampo == CampoValido(Entradas)
ManualCampoInvalido == CampoInvalido(Entradas)

\* cursor.execute(sentencia, fila) raised
ManualExecuteError ==
    /\ pc = "m_execute"
    /\ ejecutadas' = Append(ejecutadas,
          Sentencia(attempt_counter, <<>>, fila, FALSE, FALSE))
    /\ errores' = Registrar(errores,
          ErrorManual(attempt_counter, ErrorDriver("execute"), fila_dict_for_log))
    /\ pc' = TrasIntento
    /\ UNCHANGED << entrada_vars, archivo_vars, manual_vars, pendientes, confirmadas,
                    commits, log_vars, columnas, fila, resultado >>

\* cursor.execute(sentencia, fila) returned
ManualExecute ==
    /\ pc = "m_execute"
    /\ ejecutadas' = Append(ejecutadas,
          Sentencia(attempt_counter, <<>>, fila, FALSE, TRUE))
    /\ pendientes' = pendientes \cup {attempt_counter}
    /\ pc' = "m_commit"
    /\ UNCHANGED << entrada_vars, archivo_vars, manual_vars, confirmadas, commits,
                    log_vars, columnas, fila, errores, resultado >>

\* cursor.connection.commit() raised
ManualCommitError ==
    /\ pc = "m_commit"
    /\ commits' = commits + 1
    /\ errores' = Registrar(errores,
          ErrorManual(attempt_counter, ErrorDriver("commit"), fila_dict_for_log))
    /\ pc' = TrasIntento
    /\ UNCHANGED << entrada_vars, archivo_vars, manual_vars, ejecutadas, pendientes,
                    confirmadas, log_vars, columnas, fila, resultado >>

\* cursor.connection.commit() returned; filas_insertadas += 1
ManualCommit ==
    /\ pc = "m_commit"
    /\ commits' = commits + 1
    /\ confirmadas' = Commit(confirmadas, pendientes)
    /\ pendientes' = {}
    /\ filas_insertadas' = Contar(filas_insertadas)
    /\ filas_insertadas_data' = Append(filas_insertadas_data, fila_dict_for_log)
    /\ pc' = TrasIntento
    /\ UNCHANGED << entrada_vars, archivo_vars, attempt_counter, fila_dict_for_log,
                    reintentos, entrada, continuar, afirmativas, ejecutadas, log_vars,
                    columnas, fila,
                    errores, resultado >>

\* "¿Desea ingresar otra fila?" answered s
ManualContinuar ==
    /\ pc = "m_continuar"
    /\ attempt_counter < MaxIntentos
    /\ \E respuesta \in Respuestas :
          /\ Afirmativa(respuesta)
          /\ continuar' = LowerText(respuesta)
    /\ afirmativas' = afirmativas + (IF continuar' = <<"s">> THEN 1 ELSE 0)
    /\ pc' = "m_intento"
    /\ UNCHANGED << entrada_vars, archivo_vars, attempt_counter, filas_insertadas,
                    filas_insertadas_data, fila_dict_for_log, reintentos, entrada,
                    bd_vars, log_vars, columnas, fila, errores, resultado >>

\* answered anything else: the loop ends and the logs are written
ManualLogs ==
    /\ pc = "m_continuar"
    /\ \E respuesta \in Respuestas :
          /\ ~Afirmativa(respuesta)
          /\ continuar' = LowerText(respuesta)
    /\ afirmativas' = afirmativas + (IF continuar' = <<"s">> THEN 1 ELSE 0)
    /\ summary_txt' = <<Summary(attempt_counter, filas_insertadas, Len(errores))>>
    /\ inserted_csv' =
          IF HayQueEscribir(filas_insertadas_data)
          THEN Csv(columnas, filas_insertadas_data)
          ELSE inserted_csv
    /\ errors_csv' =
          IF HayQueEscribir(errores)
          THEN Csv(<<"attempt", "error", "traceback">> \o columnas, errores)
          ELSE errors_csv
    /\ pc' = "fin"
    /\ resultado' = "finalizada"
    /\ UNCHANGED << entrada_vars, archivo_vars, attempt_counter, filas_insertadas,
                    filas_insertadas_data, fila_dict_for_log, reintentos, entrada,
                    bd_vars, columnas, fila, errores >>

Next ==
    \/ ValidarBaseDatos
    \/ ValidarBaseDatosNoExiste
    \/ ValidarTabla
    \/ ValidarTablaNoExiste
    \/ FileColumnasError
    \/ FileColumnas
    \/ FileRechazar
    \/ FileAceptar
    \/ FileSiguienteFila
    \/ FileEnBlanco
    \/ FileValores
    \/ FileExecuteError
    \/ FileExecute
    \/ FileCommitError
    \/ FileCommit
    \/ FileLogs
    \/ ManualEsquemaError
    \/ ManualEsquema
    \/ ManualIntento
    \/ ManualEjecucion
    \/ ManualCampo
    \/ ManualCampoInvalido
    \/ ManualExecuteError
    \/ ManualExecute
    \/ ManualCommitError
    \/ ManualCommit
    \/ ManualContinuar
    \/ ManualLogs

Spec == Init /\ [][Next]_vars

(***************************************************************************)
(* The field prompt of carga_manual on its own: the first attempt on a     *)
(* table of one column, of any catalog type, with a wide choice of         *)
(* entries.  The run is followed up to the value list being complete.      *)
(***************************************************************************)
CampoInit ==
    /\ modo = "manual"
    /\ tabla \in {<<Col("campo", tipo)>> : tipo \in TiposCatalogo}
    /\ columnas_archivo = <<>>
    /\ nfilas = 0
    /\ etiqueta0 = 0
    /\ pc = "m_campo"
    /\ nombre_bd = "ventas"
    /\ nombre_tabla = "clientes"
    /\ contexto = "ventas"
    /\ mensaje = ""
    /\ columnas = Nombres(tabla)
    /\ columnas_sql_sin_ejecucion = <<>>
    /\ diagnostico = <<>>
    /\ iterados = 0
    /\ idx = 0
    /\ fila = <<>>
    /\ row_num = 0
    /\ valores = <<>>
    /\ filas_procesadas = 0
    /\ filas_cargadas = 0
    /\ errores = <<>>
    /\ attempt_counter = 1
    /\ filas_insertadas = 0
    /\ filas_insertadas_data = <<>>
    /\ fila_dict_for_log = <<>>
    /\ reintentos = 0
    /\ entrada = <<>>
    /\ continuar = <<>>
    /\ afirmativas = 0
    /\ ejecutadas = <<>>
    /\ pendientes = {}
    /\ confirmadas = {}
    /\ commits = 0
    /\ summary_txt = <<>>
    /\ inserted_csv = NoEscrito
    /\ errors_csv = NoEscrito
    /\ resultado = ""

PromptCampo == CampoValido(EntradasCampo)
PromptCampoInvalido == CampoInvalido(EntradasCampo)

CampoNext ==
    \/ PromptCampo
    \/ PromptCampoInvalido

CampoSpec == CampoInit /\ [][CampoNext]_vars

(***************************************************************************)
(* Vocabulary of the properties.                                           *)
(***************************************************************************)
EnArchivo == modo = "archivo"
EnManual == modo = "manual"
Finalizada == resultado = "finalizada"
Rechazada == resultado = "columnas_no_coinciden"

\* the target's non-managed column names and the source's column names, as sets
NoGestionadas == {c \in Range(Nombres(tabla)) : LowerName(c) # "bi_ejecucion"}
DeLaFuente == Range(columnas_archivo)

\* the reconciliation has been decided
Decidida == EnArchivo /\ pc \notin {"v_bd", "v_tabla", "f_columnas", "f_reconciliar"}
                      /\ resultado # "error_columnas"

(***************************************************************************)
(* Properties.                                                             *)
(***************************************************************************)
\* C1: a finalized batch run has processed = loaded + failure records, that sum
\* is the number of source rows, and the summary reports these counters.
C1_BatchTotalsAtFinalize ==
    (EnArchivo /\ Finalizada) =>
        /\ filas_procesadas = filas_cargadas + Len(errores)
        /\ filas_procesadas = nfilas
        /\ summary_txt = <<Summary(nfilas, filas_cargadas, Len(errores))>>

\* C1 witness: a finalized three-row batch with a loaded row, a blank row and a
\* row the database rejected.
C1_Witness ==
    /\ EnArchivo /\ Finalizada /\ nfilas = 3
    /\ filas_cargadas = 1
    /\ \E i, j \in 1..Len(errores) :
          /\ errores[i].traceback = Traza(ErrorEnBlanco("name", errores[i].row))
          /\ errores[j].traceback = Traza(ErrorDriver("execute"))

\* C2: a counted success is durable at once and stays so: the step that counts a
\* row as succeeded leaves that row committed, and no step of either mode ever
\* removes a row from the committed set or lowers a success counter.
C2_CommittedRowsStay ==
    [][ /\ confirmadas \subseteq confirmadas'
        /\ filas_cargadas' >= filas_cargadas
        /\ filas_insertadas' >= filas_insertadas
        /\ filas_cargadas' > filas_cargadas => filas_procesadas \in confirmadas'
        /\ filas_insertadas' > filas_insertadas => attempt_counter \in confirmadas'
      ]_vars

\* C2 witness: row 1 is committed, a later row has failed, and yet another row has
\* been committed after that failure.
C2_Witness ==
    /\ {1, 3} \subseteq confirmadas
    /\ 2 \notin confirmadas
    /\ Len(errores) = 1

\* C3: while the source's column names differ from the target's non-managed
\* column names, a batch run executes no insert, issues no commit, increments no
\* counter, records no failure and writes no log file; it ends with the mismatch
\* diagnostic only.
C3_MismatchAbortsBeforeAnyRow ==
    (EnArchivo /\ DeLaFuente # NoGestionadas) =>
        /\ ejecutadas = <<>>
        /\ commits = 0
        /\ pendientes = {} /\ confirmadas = {}
        /\ filas_procesadas = 0 /\ filas_cargadas = 0
        /\ errores = <<>>
        /\ summary_txt = <<>>
        /\ ~errors_csv.escrito /\ ~inserted_csv.escrito
        /\ pc \in {"v_bd", "v_tabla", "f_columnas", "f_reconciliar", "fin"}
        /\ (pc = "fin" /\ resultado # "error_columnas") =>
              (Rechazada /\ diagnostico # <<>>)

\* C3 witness: source columns id, name, extra against non-managed id, name, with
\* rows waiting in the source, has been rejected.
C3_Witness ==
    /\ Rechazada /\ pc = "fin"
    /\ nfilas = 3
    /\ columnas_archivo = <<"id", "name", "extra">>
    /\ NoGestionadas = {"id", "name"}

\* C4: once decided, the source is accepted exactly when the set of its column
\* names equals the set of the target's non-managed column names.
C4_AcceptIffSameSet ==
    Decidida => (~Rechazada <=> DeLaFuente = NoGestionadas)

\* C4 witness: the same names in another order are accepted.
C4_Witness ==
    /\ Decidida /\ ~Rechazada
    /\ columnas_archivo = <<"name", "id">>
    /\ columnas_sql_sin_ejecucion = <<"id", "name">>

\* C5: a rejection reports the missing columns (target non-managed columns absent
\* from the source) and the extra columns (source columns absent from the
\* target's non-managed columns), each once; the two lists are disjoint and not
\* both empty; an accepted source gets no mismatch report.
C5_MismatchLists ==
    /\ Decidida => (Rechazada <=> diagnostico # <<>>)
    /\ diagnostico # <<>> =>
          LET d == diagnostico[1]
          IN  /\ Range(d.faltantes) = NoGestionadas \ DeLaFuente
              /\ Range(d.sobrantes) = DeLaFuente \ NoGestionadas
              /\ Len(d.faltantes) = Cardinality(Range(d.faltantes))
              /\ Len(d.sobrantes) = Cardinality(Range(d.sobrantes))
              /\ Range(d.faltantes) \cap Range(d.sobrantes) = {}
              /\ d.faltantes # <<>> \/ d.sobrantes # <<>>

\* C5 witness: a rejection with one column missing and one extra (a name that
\* differs only in case).
C5_Witness ==
    /\ Rechazada
    /\ diagnostico = <<[faltantes |-> <<"id">>, sobrantes |-> <<"ID">>]>>

\* the cells of the current batch row, in schema order, exactly as read
CeldasDeLaFila ==
    [i \in 1..Len(columnas_sql_sin_ejecucion) |-> fila[columnas_sql_sin_ejecucion[i]]]

\* the last element of a non-empty list
Ultimo(lista) == lista[Len(lista)]

\* the step appends exactly one failure record
UnErrorMas ==
    /\ Len(errores') = Len(errores) + 1
    /\ SubSeq(errores', 1, Len(errores)) = errores

\* C6 (as claimed): a batch row with a blank non-managed cell gets no insert and
\* no commit, exactly one failure record whose diagnostic names a blank field of
\* the row and the row's 1-based position in the source, the loop goes on to the
\* next row, and the committed rows stay committed.
C6_BlankRowDiagnostic ==
    [][ (pc = "f_valores" /\ PrimerBlanco(fila, columnas_sql_sin_ejecucion) # 0) =>
          /\ ejecutadas' = ejecutadas
          /\ commits' = commits
          /\ confirmadas' = confirmadas
          /\ filas_cargadas' = filas_cargadas
          /\ UnErrorMas
          /\ \E c \in Range(columnas_sql_sin_ejecucion) :
                /\ IsNa(fila[c])
                /\ Ultimo(errores').error = Texto(ErrorEnBlanco(c, iterados))
          /\ pc' = "f_filas"
      ]_vars

\* C7 (as claimed): in batch mode no insert statement is executed that binds a
\* value which does not parse under its column's type category.
C7_NoInsertOfUnparsedValue ==
    EnArchivo =>
        \A i \in 1..Len(ejecutadas) :
            \A j \in 1..Len(ejecutadas[i].valores) :
                Coerce(Tipos(tabla)[ejecutadas[i].columnas[j]],
                       Str(ejecutadas[i].valores[j])).ok

\* C7 (amended): in batch mode the fields are not coerced.  A row without a blank
\* cell has its cells bound exactly as read and its insert statement executed,
\* whether or not the values parse under their columns' categories; it is marked
\* failed only when the driver raises, with the driver's diagnostic, and the loop
\* goes on to the next row.
C7_CellsBoundAsRead ==
    [][ /\ (pc = "f_valores" /\ PrimerBlanco(fila, columnas_sql_sin_ejecucion) = 0) =>
              /\ valores' = CeldasDeLaFila
              /\ errores' = errores
              /\ pc' = "f_execute"
        /\ pc = "f_execute" =>
              /\ Len(ejecutadas') = Len(ejecutadas) + 1
              /\ Ultimo(ejecutadas').fila = filas_procesadas
              /\ Ultimo(ejecutadas').valores = CeldasDeLaFila
              /\ \/ /\ errores' = errores
                    /\ Ultimo(ejecutadas').aceptada
                    /\ pc' = "f_commit"
                 \/ /\ UnErrorMas
                    /\ Ultimo(errores').error = Texto(ErrorDriver("execute"))
                    /\ ~Ultimo(ejecutadas').aceptada
                    /\ pc' = "f_filas"
      ]_vars

\* C7 witness: an insert binding the text abc to the int column id was executed
\* and, here, accepted and committed.
C7_Witness ==
    /\ EnArchivo
    /\ columnas_sql_sin_ejecucion = <<"id", "name">>
    /\ Tipos(tabla)["id"] = "int"
    /\ Len(ejecutadas) = 1
    /\ ejecutadas[1].valores[1] = StrV(<<"a", "b", "c">>)
    /\ ~ParseInt(Str(ejecutadas[1].valores[1])).ok
    /\ 1 \in confirmadas

\* the step is an insert the server turned down, or a commit that raised
Rechazo ==
    \/ /\ pc \in {"f_execute", "m_execute"}
       /\ Len(ejecutadas') = Len(ejecutadas) + 1
       /\ ~Ultimo(ejecutadas').aceptada
    \/ /\ pc \in {"f_commit", "m_commit"}
       /\ commits' = commits + 1
       /\ pendientes' # {}

\* the failures file and the summary hold every failure record
InformeDeErrores ==
    /\ summary_txt[1].con_error = Len(errores)
    /\ Len(errors_csv.rows) = Len(errores)
    /\ \A i \in 1..Len(errores) :
          \A k \in DOMAIN errores[i] :
              /\ k \in DOMAIN errors_csv.rows[i]
              /\ errors_csv.rows[i][k] = errores[i][k]

\* C8 (as claimed): in both modes a step in which the database rejects the row
\* appends exactly one failure record carrying the row number (batch) or attempt number
\* (interactive), the driver's message and a trace, leaves the success counters
\* alone and goes on to the next row or to the continue prompt; and a finalized
\* run reports every failure record in its failures file and counts them in its
\* summary.
C8_RejectedInsertIsRecorded ==
    [][ /\ Rechazo =>
              /\ UnErrorMas
              /\ \E origen \in {"execute", "commit"} :
                    /\ Ultimo(errores').error = Texto(ErrorDriver(origen))
                    /\ Ultimo(errores').traceback = Traza(ErrorDriver(origen))
              /\ EnArchivo => Ultimo(errores').row = row_num
              /\ EnManual => Ultimo(errores').attempt = attempt_counter
              /\ filas_cargadas' = filas_cargadas
              /\ filas_insertadas' = filas_insertadas
              /\ pc' = (IF EnArchivo THEN "f_filas" ELSE "m_continuar")
              /\ resultado' = ""
        /\ Finalizada' => InformeDeErrores'
      ]_vars

\* rows counted as succeeded
Exitos == IF EnManual THEN filas_insertadas ELSE filas_cargadas

\* C9: a finalized run has written its summary; it has written the inserted-rows
\* file only if a row succeeded and the failures file only if a row failed; a
\* run that is not finalized has written no log file.
C9_ArtifactsOnFinalize ==
    /\ Finalizada =>
          /\ Len(summary_txt) = 1
          /\ inserted_csv.escrito => Exitos >= 1
          /\ errors_csv.escrito => Len(errores) >= 1
    /\ ~Finalizada =>
          /\ summary_txt = <<>>
          /\ ~inserted_csv.escrito
          /\ ~errors_csv.escrito

\* C9 witness: a finalized run with successes and no failure: summary and
\* inserted-rows file, no failures file.
C9_Witness ==
    /\ Finalizada
    /\ errores = <<>>
    /\ Exitos = 2
    /\ Len(summary_txt) = 1
    /\ inserted_csv.escrito
    /\ ~errors_csv.escrito

\* the value list is complete and every non-managed value is a validated entry
FilaValidada ==
    /\ Len(fila) = Len(columnas)
    /\ \A i \in 1..Len(columnas) :
          LowerName(columnas[i]) # "bi_ejecucion" =>
              \E tecleado \in Entradas :
                  /\ Coerce(Tipos(tabla)[columnas[i]], tecleado).ok
                  /\ Coerce(Tipos(tabla)[columnas[i]], tecleado).valor = fila[i]

\* C10: in interactive mode an entry that does not validate changes nothing but
\* the count of printed messages: the same field is asked again, the values
\* already accepted are kept, no insert is issued, the counters and the failure
\* list stay; and the insert step is reached only with one value per column,
\* each non-managed one the result of a successful validation.
C10_FieldRetryIsLocal ==
    [][ /\ (pc = "m_campo" /\ reintentos' # reintentos) =>
              /\ pc' = "m_campo"
              /\ fila' = fila
              /\ fila_dict_for_log' = fila_dict_for_log
              /\ ejecutadas' = ejecutadas
              /\ commits' = commits
              /\ attempt_counter' = attempt_counter
              /\ filas_insertadas' = filas_insertadas
              /\ filas_insertadas_data' = filas_insertadas_data
              /\ errores' = errores
        /\ pc' = "m_execute" => FilaValidada'
        /\ ejecutadas' # ejecutadas => (EnManual => pc = "m_execute")
      ]_vars

\* C10 witness: after two rejected entries, the second field of the row is being
\* asked with the first one's value kept.
C10_Witness ==
    /\ EnManual /\ pc = "m_campo"
    /\ reintentos = 2
    /\ attempt_counter = 1
    /\ fila = <<IntV(7)>>
    /\ ejecutadas = <<>>

\* C11: in interactive mode every row attempt, succeeded or failed, ends at the
\* continue prompt with exactly one more outcome recorded; the prompt is reached
\* in no other way; an answer other than s assembles and inserts nothing more and
\* finalizes the report, after which the run takes no further step; the answer s
\* starts exactly one more row attempt.
C11_ContinuePrompt ==
    [][ /\ (EnManual /\ pc \in {"m_execute", "m_commit"} /\ pc' # "m_commit") =>
              /\ pc' = "m_continuar"
              /\ Exitos' + Len(errores') = Exitos + Len(errores) + 1
        /\ pc' = "m_continuar" => pc \in {"m_execute", "m_commit"}
        /\ pc = "m_continuar" =>
              /\ ejecutadas' = ejecutadas
              /\ commits' = commits
              /\ confirmadas' = confirmadas
              /\ fila' = fila
              /\ errores' = errores
              /\ attempt_counter' = attempt_counter
              /\ filas_insertadas' = filas_insertadas
              /\ IF continuar' = <<"s">>
                 THEN pc' = "m_intento" /\ resultado' = "" /\ summary_txt' = <<>>
                 ELSE pc' = "fin" /\ Finalizada' /\ Len(summary_txt') = 1
        /\ pc' = "m_intento" =>
              \/ pc = "m_esquema"
              \/ pc = "m_continuar" /\ continuar' = <<"s">>
        /\ pc = "m_intento" =>
              /\ attempt_counter' = attempt_counter + 1
              /\ fila' = <<>>
              /\ pc' = "m_campo"
        /\ (EnManual /\ pc = "fin") => FALSE
      ]_vars

\* C11 witness: a session of three attempts, two inserted and one failed, that
\* ended on the answer n after two answers s.
C11_Witness ==
    /\ EnManual /\ Finalizada
    /\ attempt_counter = 3
    /\ filas_insertadas = 2
    /\ Len(errores) = 1
    /\ continuar = <<"n">>

\* a == b on two values: a float nan equals nothing, itself included
Igual(a, b) == a = b /\ ~(a.t = "float" /\ a.s = <<"n", "a", "n">>)

\* the non-managed positions of the value list assembled so far
CamposTecleados ==
    {i \in 1..Len(fila) : LowerName(columnas[i]) # "bi_ejecucion"}

\* the snapshot text of position i, coerced again under the column's type
OtraVez(i) == Coerce(Tipos(tabla)[columnas[i]], fila_dict_for_log[columnas[i]])

\* C12 (as claimed): every value that an entry coerced to renders as a string that
\* coerces again, under the same category, to an equal value.
C12_CoercionRoundTrip ==
    EnManual =>
        \A i \in CamposTecleados : OtraVez(i).ok /\ Igual(OtraVez(i).valor, fila[i])

\* C12 (amended): the round trip holds for Integer, Boolean and Text and for every
\* Real but nan; a Date/DateTime value renders with a time part and never coerces
\* again; a Real nan coerces again to a nan, which is not equal to it.
C12_RoundTripButDatesAndNan ==
    EnManual =>
        \A i \in CamposTecleados :
            CASE Categoria(Tipos(tabla)[columnas[i]]) = "DateTime" -> ~OtraVez(i).ok
              [] fila[i] = FloatSpecial(<<"n", "a", "n">>, fila[i].n) ->
                    /\ OtraVez(i).ok
                    /\ OtraVez(i).valor.s = <<"n", "a", "n">>
                    /\ ~Igual(OtraVez(i).valor, fila[i])
              [] OTHER -> OtraVez(i).ok /\ Igual(OtraVez(i).valor, fila[i])

\* C12 witness: the entry 007 was coerced to 7 under int and rendered as 7.
C12_Witness ==
    /\ EnManual /\ pc = "m_execute"
    /\ Tipos(tabla)[columnas[1]] = "int"
    /\ fila = <<IntV(7)>>
    /\ fila_dict_for_log[columnas[1]] = <<"7">>

\* the field loop is at a prompt for a column of this category
PreguntaDe(categoria) ==
    /\ EnManual /\ pc = "m_campo"
    /\ LowerName(ColumnaActual) # "bi_ejecucion"
    /\ Categoria(Tipos(tabla)[ColumnaActual]) = categoria

\* the step rejects the entry: message, nothing appended, same prompt again
EntradaRechazada ==
    /\ fila' = fila
    /\ fila_dict_for_log' = fila_dict_for_log
    /\ reintentos' = reintentos + 1
    /\ pc' = "m_campo"

\* the step accepts the entry as this value
EntradaAceptada(valor) ==
    /\ fila' = Append(fila, valor)
    /\ reintentos' = reintentos

\* C13: at the prompt of a Boolean column the entries 1, true, sí, si in any
\* letter case are accepted as 1 (true), the entries 0, false, no in any letter
\* case as 0 (false), and every other entry is rejected.
C13_BooleanLiterals ==
    [][ PreguntaDe("Boolean") =>
          LET literal == LowerText(entrada')
          IN  IF literal \in {<<"1">>, <<"t", "r", "u", "e">>, <<"s", "í">>, <<"s", "i">>}
              THEN EntradaAceptada(IntV(1))
              ELSE IF literal \in {<<"0">>, <<"f", "a", "l", "s", "e">>, <<"n", "o">>}
              THEN EntradaAceptada(IntV(0))
              ELSE EntradaRechazada
      ]_vars

\* C13 witness: on a bit column an entry was rejected and then the entry SÍ was
\* accepted as 1.
C13_Witness ==
    /\ EnManual /\ pc = "m_execute"
    /\ Tipos(tabla)[columnas[1]] = "bit"
    /\ reintentos = 1
    /\ entrada = <<"S", "Í">>
    /\ fila = <<IntV(1)>>

\* the keys a failure record has besides the field snapshot
ClavesDeError == IF EnManual THEN {"attempt", "error", "traceback"}
                 ELSE {"row", "error", "traceback"}

\* every snapshot of the two lists carries exactly these columns
Instantaneas(cols) ==
    /\ \A i \in 1..Len(filas_insertadas_data) : DOMAIN filas_insertadas_data[i] = cols
    /\ \A i \in 1..Len(errores) :
          /\ cols \subseteq DOMAIN errores[i]
          /\ DOMAIN errores[i] \subseteq cols \cup ClavesDeError

\* C14 (as claimed): in both modes every entry of the inserted-row list and of the
\* failure list carries a value for each non-managed column and for no other
\* column.
C14_SnapshotsOfNonManaged == Instantaneas(NoGestionadas)

\* C14 (amended): a batch failure entry carries exactly the non-managed columns,
\* a blank cell as the empty string and any other cell as its text; an
\* interactive entry, inserted or failed, carries every column of the table, the
\* managed column included.
C14_SnapshotColumnsPerMode ==
    [][ /\ EnArchivo =>
              /\ Instantaneas(NoGestionadas)'
              /\ filas_insertadas_data' = <<>>
              /\ errores' # errores =>
                    \A c \in NoGestionadas :
                        Ultimo(errores')[c] = (IF IsNa(fila[c]) THEN <<>> ELSE Str(fila[c]))
        /\ EnManual => Instantaneas(Range(Nombres(tabla)))'
      ]_vars

\* C14 witness: an interactive session on a table with a managed column has one
\* inserted and one failed row, both snapshots holding the managed column.
C14_Witness ==
    /\ EnManual
    /\ NoGestionadas # Range(Nombres(tabla))
    /\ Len(filas_insertadas_data) = 1
    /\ Len(errores) = 1
    /\ "Bi_ejecucion" \in DOMAIN filas_insertadas_data[1]
    /\ "Bi_ejecucion" \in DOMAIN errores[1]

\* position of a column in the catalog order of the table
Posicion(c) == CHOOSE i \in 1..Len(tabla) : tabla[i].nombre = c

\* the statement binds one value to each non-managed column, in catalog order,
\* and gives the managed column the server's GETDATE()
SentenciaPorArchivo(st) ==
    LET n == Len(st.valores)
    IN  /\ Len(st.columnas) = n + 1
        /\ {st.columnas[j] : j \in 1..n} = NoGestionadas
        /\ n = Cardinality(NoGestionadas)
        /\ \A j, k \in 1..n : j < k => Posicion(st.columnas[j]) < Posicion(st.columnas[k])
        /\ LowerName(st.columnas[n + 1]) = "bi_ejecucion"
        /\ st.getdate

\* C15: in batch mode every executed insert binds exactly one value per
\* non-managed column, in schema order, each the cell of that column in the
\* current row, binds no value for the managed column, and names the managed
\* column last with the server-side current time as its value.
C15_BatchValueList ==
    [][ EnArchivo =>
          /\ \A i \in 1..Len(ejecutadas') : SentenciaPorArchivo(ejecutadas'[i])
          /\ ejecutadas' # ejecutadas =>
                /\ Len(ejecutadas') = Len(ejecutadas) + 1
                /\ \A j \in 1..Len(Ultimo(ejecutadas').valores) :
                      Ultimo(ejecutadas').valores[j] = fila[Ultimo(ejecutadas').columnas[j]]
      ]_vars

\* C15 witness: a source whose header is name, id was loaded into the table
\* (id, name, Bi_ejecucion): the insert binds the id cell, then the name cell.
C15_Witness ==
    /\ EnArchivo
    /\ columnas_archivo = <<"name", "id">>
    /\ Len(tabla) = 3
    /\ Len(ejecutadas) = 1
    /\ ejecutadas[1].columnas = <<"id", "name", "Bi_ejecucion">>
    /\ ejecutadas[1].valores = <<IntV(7), StrV(<<"a", "b", "c">>)>>
    /\ ejecutadas[1].getdate
    /\ 1 \in confirmadas

\* rows attempted so far
Intentados == IF EnManual THEN attempt_counter ELSE filas_procesadas

\* a row attempt has been counted and its outcome is not recorded yet
EnCurso == pc \in {"m_campo", "m_execute", "m_commit", "f_valores", "f_execute", "f_commit"}

\* C16 (as claimed): in every reachable state of a run, attempted = succeeded +
\* failure records, the states inside a row attempt included.
C16_CountersAlwaysBalance == Intentados = Exitos + Len(errores)

\* C16 (amended): attempted = succeeded + failure records in every state in which
\* no row attempt is in progress; while a row attempt is in progress attempted is
\* one more than that sum.
C16_CountersBalanceBetweenRows ==
    Intentados = Exitos + Len(errores) + (IF EnCurso THEN 1 ELSE 0)

\* C16 witness: the third row of a batch is about to be inserted after one loaded
\* row and one failed row.
C16_Witness ==
    /\ EnArchivo /\ pc = "f_execute"
    /\ filas_procesadas = 3
    /\ filas_cargadas = 1
    /\ Len(errores) = 1

\* the value list of an interactive insert: one value per column of the table, in
\* the introspected order, the managed one computed by the client
ListaManual(f) ==
    /\ Len(f) = Len(columnas)
    /\ columnas = Nombres(tabla)
    /\ \A i \in 1..Len(f) :
          IF LowerName(columnas[i]) = "bi_ejecucion"
          THEN f[i] = (IF tabla[i].tipo \in {"date", "datetime", "smalldatetime", "datetime2"}
                       THEN NowV ELSE NowPythonV)
          ELSE f[i] \notin {NowV, NowPythonV}

\* the scenario: table (id int, name varchar, Bi_ejecucion datetime), one attempt
\* with the entries 7 and Ana, the insert committed, the session ended
EscenarioAna ==
    /\ EnManual /\ Finalizada
    /\ tabla = <<Col("id", "int"), Col("name", "varchar"), Col("Bi_ejecucion", "datetime")>>
    /\ attempt_counter = 1
    /\ fila = <<IntV(7), StrV(<<"A", "n", "a">>), NowV>>
    /\ confirmadas = {1}

\* C17: in interactive mode the managed column is filled without a prompt with
\* the client's current time, every other column gets the coerced value of the
\* entry typed for it, each insert binds the list of these values, one per
\* column in the introspected order; and the scenario with the entries 7 and Ana
\* ends with one succeeded row and no failure.
C17_InteractiveValueList ==
    [][ /\ (EnManual /\ pc = "m_campo" /\ LowerName(ColumnaActual) = "bi_ejecucion") =>
              /\ entrada' = entrada
              /\ reintentos' = reintentos
              /\ Len(fila') = Len(fila) + 1
              /\ Ultimo(fila') \in {NowV, NowPythonV}
        /\ (EnManual /\ pc = "m_campo" /\ LowerName(ColumnaActual) # "bi_ejecucion"
                     /\ fila' # fila) =>
              /\ Coerce(Tipos(tabla)[ColumnaActual], entrada').ok
              /\ fila' = Append(fila, Coerce(Tipos(tabla)[ColumnaActual], entrada').valor)
        /\ (EnManual /\ ejecutadas' # ejecutadas) =>
              /\ Len(ejecutadas') = Len(ejecutadas) + 1
              /\ Ultimo(ejecutadas').valores = fila
              /\ ListaManual(fila)
        /\ EscenarioAna' =>
              /\ filas_insertadas' = 1
              /\ errores' = <<>>
              /\ summary_txt' = <<Summary(1, 1, 0)>>
      ]_vars

\* C17 witness: the scenario has run: 7 and Ana were entered, the row is
\* committed and the session ended on the answer n.
C17_Witness ==
    /\ EscenarioAna
    /\ continuar = <<"n">>
    /\ filas_insertadas = 1
    /\ Len(filas_insertadas_data) = 1
    /\ Len(ejecutadas) = 1
    /\ ejecutadas[1].valores = <<IntV(7), StrV(<<"A", "n", "a">>), NowV>>

\* the step treats the entry as this parse of it says: appended when it parsed,
\* rejected when it did not
TratadaComo(parse) ==
    IF parse.ok THEN EntradaAceptada(parse.valor) ELSE EntradaRechazada

\* C18: at a field prompt the column's catalog type name decides alone how the
\* entry is coerced: int, bigint, smallint, tinyint as an Integer; float, real,
\* decimal, numeric, money, smallmoney as a Real; bit as a Boolean; date,
\* datetime, smalldatetime, datetime2 as a Date/DateTime; every other type name
\* as Text, and under Text every entry is accepted and kept unchanged.
C18_TypeCategories ==
    [][ (EnManual /\ pc = "m_campo" /\ LowerName(ColumnaActual) # "bi_ejecucion") =>
          LET tipo == Tipos(tabla)[ColumnaActual]
          IN  IF tipo \in {"int", "bigint", "smallint", "tinyint"}
              THEN TratadaComo(ParseInt(entrada'))
              ELSE IF tipo \in {"float", "real", "decimal", "numeric", "money", "smallmoney"}
              THEN TratadaComo(ParseFloat(entrada'))
              ELSE IF tipo = "bit"
              THEN TratadaComo(ParseBit(entrada'))
              ELSE IF tipo \in {"date", "datetime", "smalldatetime", "datetime2"}
              THEN TratadaComo(ParseDate(entrada'))
              ELSE /\ EntradaAceptada(StrV(entrada'))
                   /\ Ultimo(fila').s = entrada'
                   /\ fila_dict_for_log'[ColumnaActual] = entrada'
      ]_vars

\* C18 witness: on a uniqueidentifier column, a type name of none of the lists,
\* the entry 7 was accepted at once and kept as the text 7.
C18_Witness ==
    /\ EnManual /\ pc = "m_execute"
    /\ Tipos(tabla)[columnas[1]] = "uniqueidentifier"
    /\ entrada = <<"7">>
    /\ fila = <<StrV(<<"7">>)>>
    /\ reintentos = 0

\* the names in hand are validated: the database exists and is the one in use,
\* and the table exists in it
NombresValidados ==
    /\ nombre_bd \in BasesDeDatos
    /\ contexto = nombre_bd
    /\ nombre_tabla \in TablasDe(contexto)

\* C19: in both modes the connection changes database only in the round of the
\* database check that found the typed name, and to that name; a database name
\* that does not exist and a table name that does not exist in the database in
\* use are turned down with two different messages and asked again; the loader
\* leaves the validation only with a database that exists and is in use and a
\* table that exists in it, so that every column read and every insert is for
\* validated names.
C19_TwoStepValidation ==
    [][ /\ contexto' # contexto =>
              /\ pc = "v_bd" /\ pc' = "v_tabla"
              /\ nombre_bd' \in BasesDeDatos
              /\ contexto' = nombre_bd'
        /\ pc = "v_bd" =>
              IF nombre_bd' \in BasesDeDatos
              THEN pc' = "v_tabla" /\ contexto' = nombre_bd' /\ mensaje' = ""
              ELSE /\ pc' = "v_bd" /\ contexto' = contexto
                   /\ mensaje' = "La base de datos no existe. Intente nuevamente."
        /\ pc = "v_tabla" =>
              /\ nombre_bd' = nombre_bd /\ contexto' = contexto
              /\ IF nombre_tabla' \in TablasDe(contexto)
                 THEN pc' \in {"m_esquema", "f_columnas"} /\ mensaje' = ""
                 ELSE /\ pc' = "v_tabla"
                      /\ mensaje' = "La tabla no existe. Verifique el nombre."
        /\ pc \in {"v_bd", "v_tabla"} => columnas' = <<>> /\ ejecutadas' = <<>>
        /\ pc \notin {"v_bd", "v_tabla"} =>
              /\ NombresValidados
              /\ UNCHANGED << nombre_bd, nombre_tabla, contexto >>
      ]_vars

\* C19 witness: with the connection in master, the table name clientes, which
\* exists in ventas only, has been turned down and is asked again; nothing has
\* been read or inserted.
C19_Witness ==
    /\ pc = "v_tabla"
    /\ nombre_bd = "master" /\ contexto = "master"
    /\ nombre_tabla = "clientes"
    /\ mensaje = "La tabla no existe. Verifique el nombre."
    /\ columnas = <<>>
    /\ ejecutadas = <<>>

\* the rows of this run that have a failure record: attempt numbers in
\* interactive mode, positions in the source in batch mode
Fallidas ==
    IF EnManual THEN {errores[i].attempt : i \in 1..Len(errores)}
    ELSE {errores[i].row - etiqueta0 : i \in 1..Len(errores)}

\* C20 (as claimed): at finalize the rows of this run that are durably in the
\* table are exactly the rows counted as succeeded: their number is the success
\* counter, every attempted row without a failure record is among them, and no
\* row with a failure record is.
C20_DurableEqualsSucceeded ==
    Finalizada =>
        /\ Cardinality(confirmadas) = Exitos
        /\ confirmadas \cap Fallidas = {}
        /\ confirmadas = (1..Intentados) \ Fallidas

\* the target table has no managed column
SinGestionada == \A i \in 1..Len(tabla) : LowerName(tabla[i].nombre) # "bi_ejecucion"

\* the non-managed column names in catalog order
NoGestionadasEnOrden ==
    SelectSeq(Nombres(tabla), LAMBDA c : LowerName(c) # "bi_ejecucion")

\* C21: in batch mode the column list of every insert is the non-managed
\* columns followed by Bi_ejecucion, whether or not the table has a managed
\* column; for a table without one no insert is accepted, no row is counted as
\* succeeded or becomes durable, and the finalized run reports succeeded = 0 and
\* failed = number of source rows.
C21_BatchAlwaysNamesManaged ==
    EnArchivo =>
        /\ \A i \in 1..Len(ejecutadas) :
              ejecutadas[i].columnas = NoGestionadasEnOrden \o <<"Bi_ejecucion">>
        /\ SinGestionada =>
              /\ \A i \in 1..Len(ejecutadas) : ~ejecutadas[i].aceptada
              /\ filas_cargadas = 0
              /\ pendientes = {} /\ confirmadas = {}
              /\ Finalizada =>
                    /\ Len(errores) = nfilas
                    /\ summary_txt = <<Summary(nfilas, 0, nfilas)>>

\* C21 witness: a source of three rows with header id, name was loaded into the
\* table (id, name): two inserts were sent, each naming Bi_ejecucion, the third
\* row had a blank cell, and the run finalized with three failures.
C21_Witness ==
    /\ EnArchivo /\ Finalizada
    /\ SinGestionada
    /\ columnas_archivo = <<"id", "name">>
    /\ nfilas = 3
    /\ Len(ejecutadas) = 2
    /\ ejecutadas[1].columnas = <<"id", "name", "Bi_ejecucion">>
    /\ Len(errores) = 3
    /\ filas_cargadas = 0

\* C22: a source that carries a column named Bi_ejecucion is rejected by the
\* reconciliation, whatever the target table, with Bi_ejecucion among the
\* columns listed as not in the table; when its other columns are exactly the
\* target's non-managed columns, nothing is listed as missing and Bi_ejecucion
\* is the only extra.
C22_ManagedNameInSourceRejected ==
    (Decidida /\ "Bi_ejecucion" \in DeLaFuente) =>
        /\ Rechazada
        /\ Len(diagnostico) = 1
        /\ "Bi_ejecucion" \in Range(diagnostico[1].sobrantes)
        /\ ejecutadas = <<>>
        /\ (DeLaFuente \ {"Bi_ejecucion"} = NoGestionadas) =>
              /\ diagnostico[1].faltantes = <<>>
              /\ diagnostico[1].sobrantes = <<"Bi_ejecucion">>

\* C22 witness: the source id, name, Bi_ejecucion against the table
\* (id, name, Bi_ejecucion) has been rejected for the extra column alone.
C22_Witness ==
    /\ Rechazada /\ pc = "fin"
    /\ Nombres(tabla) = <<"id", "name", "Bi_ejecucion">>
    /\ columnas_archivo = <<"id", "name", "Bi_ejecucion">>
    /\ diagnostico = <<[faltantes |-> <<>>, sobrantes |-> <<"Bi_ejecucion">>]>>

\* C23: a batch run keeps no snapshot of a row that succeeded (its only
\* snapshots are those of the failure records) and never writes the
\* inserted-rows file, however many rows succeeded; a finalized interactive run
\* has written that file exactly when at least one row succeeded, with one line
\* per succeeded row.
C23_InsertedArtifactOnlyInteractive ==
    /\ EnArchivo =>
          /\ filas_insertadas_data = <<>>
          /\ ~inserted_csv.escrito
          /\ pc = "f_filas" => Len(errores) = filas_procesadas - filas_cargadas
    /\ (EnManual /\ Finalizada) =>
          /\ inserted_csv.escrito <=> filas_insertadas >= 1
          /\ inserted_csv.escrito => Len(inserted_csv.rows) = filas_insertadas
    /\ (EnManual /\ ~Finalizada) => ~inserted_csv.escrito

\* C23 witness: a batch run finalized with all three of its rows succeeded and
\* durable, and there is no inserted-rows file.
C23_Witness ==
    /\ EnArchivo /\ Finalizada
    /\ filas_cargadas = 3
    /\ confirmadas = {1, 2, 3}
    /\ summary_txt = <<Summary(3, 3, 0)>>
    /\ ~inserted_csv.escrito
    /\ filas_insertadas_data = <<>>

\* C24: in an interactive run the continue prompt is reached only with a full
\* row assembled and its insert sent, one insert per attempt; every finalized
\* interactive report has attempted >= 1, and attempted is one plus the number
\* of answers s given to the continue prompt.
C24_AttemptsAndPositiveAnswers ==
    EnManual =>
        /\ pc = "m_continuar" =>
              /\ attempt_counter >= 1
              /\ Len(fila) = Len(columnas)
              /\ Len(ejecutadas) = attempt_counter
              /\ Ultimo(ejecutadas).fila = attempt_counter
              /\ Ultimo(ejecutadas).valores = fila
        /\ Finalizada =>
              /\ attempt_counter >= 1
              /\ attempt_counter = 1 + afirmativas
              /\ Len(ejecutadas) = attempt_counter
              /\ summary_txt =
                    <<Summary(1 + afirmativas, filas_insertadas, Len(errores))>>
        /\ (pc = "fin" /\ ~Finalizada) =>
              /\ resultado = "error_esquema"
              /\ attempt_counter = 0 /\ afirmativas = 0

\* C24 witness: the operator declined at the first continue prompt, after one
\* row whose insert was sent and rejected: the report counts one attempt.
C24_Witness ==
    /\ EnManual /\ Finalizada
    /\ afirmativas = 0
    /\ continuar = <<"n">>
    /\ attempt_counter = 1
    /\ Len(ejecutadas) = 1 /\ ~ejecutadas[1].aceptada
    /\ summary_txt = <<Summary(1, 0, 1)>>

====
